---- MODULE Spec2Model ----
(***************************************************************************)
(* Model of the reverse proxy's service registry (Config.Backends and      *)
(* Config.BackendIndices, two sibling sync.Map values), of the round-robin *)
(* selection getNextBackend, of addBackend / removeBackend, and of the L7  *)
(* forwarder handleHTTPRequest with its response cache (Config.Cache), of   *)
(* the L4 forwarder (handleConnection, extractSNI, forwardTraffic) with    *)
(* the ClientHello parser parseTLSClientHello, and of the registration     *)
(* handler of the control plane.                                           *)
(*                                                                         *)
(* Every sync.Map method is one atomic step; a function of the program     *)
(* that makes several sync.Map calls is a sequence of steps of one         *)
(* goroutine, so that goroutines interleave between the calls exactly as   *)
(* the Go scheduler lets them.                                             *)
(***************************************************************************)
EXTENDS Integers, Sequences, FiniteSets, TLC

\* ------------------------------------------------------------- bounds
\* Number of goroutines (connection workers / HTTP handlers) that run at once.
NumProcs == 2
\* Number of registry operations and requests started in one behaviour.
MaxOps == 4

\* Number of calls a single caller makes one after another.
MaxSeqOps == 6

\* Number of calls in a behaviour of concurrent Register and Next calls.
MaxRegOps == 3
\* Number of registrations and requests the L7 proxy receives.
MaxL7Ops == 3
\* Number of getFromCache / storeInCache calls in a behaviour.
MaxCacheOps == 4
\* Number of control-plane requests and Next calls in a behaviour.
MaxCtlOps == 3
\* Number of registry calls made while the L4 proxy serves connections, and
\* number of connections it accepts.
MaxL4Ops == 1
MaxConns == 1
\* extractSNI: bufferedConn.Peek(253)
PeekSize == 253

Procs == 1..NumProcs
\* Routing keys (SNI names / Host values) and upstream endpoint strings.
Selectors == {"h", "g"}
BackendNames == {"A", "B", "C"}
\* L7 requests: Host header values, methods, URLs (path and raw query), and
\* what a backend can answer.
\* r.Host of a request without Host header: net/http hands an HTTP/1.0
\* request without one to the handler (it answers 400 itself only if the
\* request is HTTP/1.1).
NoHost == ""

Hosts == Selectors \cup {"H", "h:443", NoHost}
Methods == {"GET", "POST"}
URLs == [path : {"/x"}, query : {"", "a=1"}]
Statuses == {200, 404}
Bodies == {"v1", "v2"}

VARIABLES
    Backends,        \* Config.Backends: selector -> (backend -> TRUE)
    BackendIndices,  \* Config.BackendIndices: selector -> int
    pc,              \* per goroutine: the statement it is about to execute
    arg,             \* per goroutine: the arguments of the running call
    loc,             \* per goroutine: locals of getNextBackend
    ret,             \* the call that returned last, and what it returned
    opsLeft,         \* calls that may still be started
    order,           \* history: per selector, backends in order of first Store
    returned,        \* history: per selector, backends returned by Next since
                     \*          the pool's key set last changed
    epoch,           \* history: per selector, cursor and concurrency at the
                     \*          pool's last change
    regHist,         \* history: per selector, Register calls started / done
    Cache,           \* Config.Cache: cache key -> response body
    cacheOn,         \* whether handleHTTPRequest is the variant that uses the cache
    forwards,        \* history: requests a backend answered, in order of completion
    observe,         \* whether the registry's history variables are kept
    puts,            \* history: per cache key, the values passed to storeInCache
                     \*          and the value stored last
    conn,            \* the L4 connection in progress: client, sockets, bufio
                     \*          buffer, copy goroutines, backend
    listening,       \* whether the proxy process is alive and accepting
    parseIn,         \* the bytes handed to parseTLSClientHello
    parseOut,        \* what parseTLSClientHello returned for them
    metrics          \* the Prometheus metrics of the L7 proxy, and (history)
                     \*          the error responses its handler generated

vars == << Backends, BackendIndices, pc, arg, loc, ret, opsLeft,
           order, returned, epoch, regHist, Cache, cacheOn, forwards, observe,
           puts, conn, listening, parseIn, parseOut, metrics >>

\* The variables of the L4 data plane and of the parser.
l4vars == << conn, listening >>
parsevars == << parseIn, parseOut >>

\* What the request handler leaves alone but for its metrics.
l7rest == << Cache, cacheOn, forwards, observe, puts, l4vars, parsevars >>
l7vars == << l7rest, metrics >>
hist == << order, returned, epoch, regHist >>

\* ------------------------------------------------------------ sync.Map
\* A sync.Map is a finite function; the methods the program uses.
EmptyMap == [x \in {} |-> TRUE]

MapHas(m, k) == k \in DOMAIN m

\* Fault: a Store that replaces the map by the one new entry.
MapStoreReplacesAll(m, k, v) == [x \in {k} |-> v]

MapStore(m, k, v) == [x \in DOMAIN m \cup {k} |-> IF x = k THEN v ELSE m[x]]

\* Fault: a Store where the program calls LoadOrStore.
MapLoadOrStoreOverwrites(m, k, v) == MapStore(m, k, v)

MapLoadOrStore(m, k, v) == IF k \in DOMAIN m THEN m ELSE MapStore(m, k, v)

MapDelete(m, k) == [x \in DOMAIN m \ {k} |-> m[x]]

\* The orders in which one Range call can visit the key set S: sync.Map.Range
\* of go 1.22 walks a built-in map, whose iteration order is unspecified and
\* differs from one call to the next.
RangeOrders(S) ==
    { f \in [1..Cardinality(S) -> S] : \A a \in S : \E i \in DOMAIN f : f[i] = a }

\* -------------------------------------------------------------- helpers
Keys(s) == IF MapHas(Backends, s) THEN DOMAIN Backends[s] ELSE {}

Cursor(s) == IF MapHas(BackendIndices, s) THEN BackendIndices[s] ELSE 0

NoArg == [op |-> "none", sni |-> "", backend |-> ""]
NoLoc == [list |-> << >>, index |-> 0, must |-> {}, may |-> {}]
NoRet == [op |-> "none", sni |-> "", kind |-> "none", backend |-> ""]
Returns(o, s, k, b) == [op |-> o, sni |-> s, kind |-> k, backend |-> b]

IsHandle(p) == arg[p].op = "Handle"
IsConn(p) == arg[p].op = "Conn"

InNext(p) == pc[p] \in {"nextRange", "nextIndex", "nextPick"}
InRegister(p) == pc[p] = "addStore"

NextRunning(s) == \E q \in Procs : InNext(q) /\ arg[q].sni = s
Ranging(q, s) == pc[q] = "nextRange" /\ arg[q].sni = s

SeqWithout(q, b) == SelectSeq(q, LAMBDA x : x # b)

\* History kept when the key set of selector s changes from old to new.
PoolChanged(s, old, new) ==
    IF old = new \/ ~observe
    THEN /\ UNCHANGED << returned, epoch >>
    ELSE /\ returned' = [returned EXCEPT ![s] = << >>]
         /\ epoch' = [epoch EXCEPT ![s] =
                         [cursor0 |-> Cursor(s), clean |-> ~NextRunning(s)]]

\* A Range in progress on s sees every key that stays in the map for the
\* whole call, and may or may not see a key stored or deleted meanwhile.
RangeSeesStore(s, b) ==
    [q \in Procs |->
        IF Ranging(q, s) /\ b \notin loc[q].must
        THEN [loc[q] EXCEPT !.may = @ \cup {b}]
        ELSE loc[q]]

RangeSeesDelete(s, b) ==
    [q \in Procs |->
        IF Ranging(q, s) /\ b \in (loc[q].must \cup loc[q].may)
        THEN [loc[q] EXCEPT !.must = @ \ {b}, !.may = @ \cup {b}]
        ELSE loc[q]]

\* ------------------------------------------------- parseTLSClientHello
\* Byte strings are sequences of numbers 0..255; data[i] of the program
\* (indices from 0) is At(data, i), and reading at an index that is not
\* below len(data) is a Go run-time panic.
At(data, i) == data[i + 1]
InRange(data, i) == i < Len(data)
\* int(data[i])<<8 | int(data[i+1])
U16At(data, i) == At(data, i) * 256 + At(data, i + 1)

\* What parseTLSClientHello gives: (name, nil), ("", err), or a panic.
NoParse == [kind |-> "none", name |-> << >>, err |-> ""]
ParsedName(name) == [kind |-> "Name", name |-> name, err |-> ""]
ParseError(e) == [kind |-> "Error", name |-> << >>, err |-> e]
ParsePanic == [kind |-> "Panic", name |-> << >>, err |-> "index out of range"]

\* Fault: the record length is not compared with the data at hand.
RecordNeverIncomplete(data) == FALSE

\* recordLen := int(data[3])<<8 | int(data[4]); len(data)-5 < recordLen
RecordIncomplete(data) == Len(data) - 5 < U16At(data, 3)

\* for offset+4 <= end { ... }: the walk over the extensions.
RECURSIVE WalkExtensions(_, _, _)
WalkExtensions(data, offset, end) ==
    IF offset + 4 > end
    THEN ParseError("SNI not found in ClientHello")
    ELSE LET extType == U16At(data, offset)
             extLen == U16At(data, offset + 2)
             off == offset + 4
         IN  IF off + extLen > end
             THEN ParseError("extension length exceeds data size")
             ELSE IF extType = 0
                  THEN IF ~InRange(data, off + 4)
                       THEN ParsePanic
                       ELSE LET sniLen == U16At(data, off + 3)
                            IN  IF off + 5 + sniLen > end
                                THEN ParseError("invalid SNI length")
                                ELSE ParsedName(SubSeq(data, off + 6, off + 5 + sniLen))
                  ELSE WalkExtensions(data, off + extLen, end)

\* extensionsLen := ...; offset += 2; len(data) < offset+extensionsLen
ParseExtensions(data, offset) ==
    IF ~InRange(data, offset + 1)
    THEN ParsePanic
    ELSE LET extensionsLen == U16At(data, offset)
             off == offset + 2
         IN  IF Len(data) < off + extensionsLen
             THEN ParseError("extensions length exceeds data size")
             ELSE WalkExtensions(data, off, off + extensionsLen)

\* compressionMethodsLen := int(data[offset]); offset += 1 + ...
ParseCompression(data, offset) ==
    IF ~InRange(data, offset)
    THEN ParsePanic
    ELSE LET off == offset + 1 + At(data, offset)
         IN  IF Len(data) < off
             THEN ParseError("invalid ClientHello compression methods")
             ELSE ParseExtensions(data, off)

\* cipherSuitesLen := int(data[offset])<<8 | int(data[offset+1]); ...
ParseCipherSuites(data, offset) ==
    IF ~InRange(data, offset + 1)
    THEN ParsePanic
    ELSE LET off == offset + 2 + U16At(data, offset)
         IN  IF Len(data) < off
             THEN ParseError("invalid ClientHello cipher suites")
             ELSE ParseCompression(data, off)

\* offset := 43; sessionIDLen := int(data[offset]); offset += 1 + sessionIDLen
ParseSessionID(data) ==
    IF ~InRange(data, 43)
    THEN ParsePanic
    ELSE LET off == 43 + 1 + At(data, 43)
         IN  IF Len(data) < off
             THEN ParseError("invalid ClientHello session ID")
             ELSE ParseCipherSuites(data, off)

parseTLSClientHello(data) ==
    IF Len(data) < 5
    THEN ParseError("data too short for TLS handshake")
    ELSE IF At(data, 0) # 22
    THEN ParseError("not a TLS handshake")
    ELSE IF At(data, 1) # 3 \/ At(data, 2) \notin {1, 2, 3}
    THEN ParseError("unsupported TLS version")
    ELSE IF RecordIncomplete(data)
    THEN ParseError("incomplete handshake record")
    ELSE IF ~InRange(data, 5)
    THEN ParsePanic
    ELSE IF At(data, 5) # 1
    THEN ParseError("not a ClientHello message")
    ELSE IF Len(data) < 43
    THEN ParseError("invalid ClientHello message")
    ELSE ParseSessionID(data)

\* ----------------------------------------------- ClientHello records
\* The byte layout parseTLSClientHello reads (RFC 5246 7.4.1.2, RFC 6066 3),
\* used to build the inputs: a record header, a handshake header, version,
\* random, session id, cipher suites, compression methods, extensions.
U16Bytes(n) == << n \div 256, n % 256 >>
U24Bytes(n) == << n \div 65536, (n \div 256) % 256, n % 256 >>
Fill(n, b) == [i \in 1..n |-> b]

RECURSIVE Flatten(_)
Flatten(seqs) == IF seqs = << >> THEN << >> ELSE Head(seqs) \o Flatten(Tail(seqs))

Extension(type, data) == U16Bytes(type) \o U16Bytes(Len(data)) \o data

\* One entry of a server name list: name_type, name_length, name.
ServerNameEntry(e) == << e.type >> \o U16Bytes(Len(e.name)) \o e.name

ServerNameList(entries) ==
    Flatten([i \in DOMAIN entries |-> ServerNameEntry(entries[i])])

SNIExtension(entries) ==
    Extension(0, U16Bytes(Len(ServerNameList(entries))) \o ServerNameList(entries))

\* The bytes of a ClientHello record before its extensions' bytes.
HelloHead(sid, cs, extsLen) ==
    LET body == << 3, 3 >> \o Fill(32, 7) \o << Len(sid) >> \o sid
                    \o U16Bytes(Len(cs)) \o cs \o << 1, 0 >> \o U16Bytes(extsLen)
        bodyLen == Len(body) + extsLen
    IN  << 22, 3, 1 >> \o U16Bytes(bodyLen + 4) \o << 1 >> \o U24Bytes(bodyLen) \o body

\* A ClientHello record with session id sid, cipher suites cs, the extensions
\* before (bytes), a server_name extension listing entries, and the
\* extensions after (bytes).
ClientHello(sid, cs, before, entries, after) ==
    LET exts == before \o SNIExtension(entries) \o after
    IN  HelloHead(sid, cs, Len(exts)) \o exts

\* The first entry of name_type host_name (0) of a server name list.
FirstHostName(entries) ==
    LET hosts == { i \in DOMAIN entries : entries[i].type = 0 }
    IN  entries[CHOOSE i \in hosts : \A j \in hosts : i <= j].name

\* The number of bytes of the record up to the end of that name.
NameEnd(sid, cs, before, entries) ==
    LET hosts == { i \in DOMAIN entries : entries[i].type = 0 }
        first == CHOOSE i \in hosts : \A j \in hosts : i <= j
    IN  Len(HelloHead(sid, cs, 0)) + Len(before) + 6
            + Len(ServerNameList(SubSeq(entries, 1, first)))

\* Names, as bytes: "h", "g", "hg".
NameH == << 104 >>
NameG == << 103 >>
NameHG == << 104, 103 >>

\* The ClientHello records the parser is run on.
HelloSessionIDs == { << >>, Fill(32, 9) }
HelloCipherSuites == { << 0, 47 >>, << 19, 1, 19, 2 >> }
HelloBefore == { << >>, Extension(10, << 0, 2, 0, 29 >>) }
HelloAfter == { << >>, Extension(21, Fill(3, 0)) }
HelloNameLists ==
    { << [type |-> 0, name |-> NameH] >>,
      << [type |-> 0, name |-> NameHG] >>,
      << [type |-> 0, name |-> NameG], [type |-> 0, name |-> NameH] >>,
      << [type |-> 1, name |-> NameG], [type |-> 0, name |-> NameH] >> }

\* The inputs made of a well-formed record hello whose first host_name is
\* sni and ends at byte nameEnd: the first n bytes (data) of the record, for
\* every n up to the whole record.
PrefixesOf(hello, sni, nameEnd) ==
    { [data |-> SubSeq(hello, 1, n), n |-> n, whole |-> n = Len(hello),
       sni |-> sni, nameEnd |-> nameEnd, class |-> "prefix"] :
          n \in 0..Len(hello) }

\* The record header of data rewritten to announce n bytes.
SetRecordLen(data, n) == [data EXCEPT ![4] = n \div 256, ![5] = n % 256]

\* The inputs made of the first n bytes of a well-formed record, n short of
\* the whole, with a record header that announces what is there: a complete
\* record in which a length field of the ClientHello (of the handshake
\* message, the session id, the cipher suites, the compression methods, the
\* extensions, one extension, or the name) points past the available bytes.
OverrunsOf(hello) ==
    { [data |-> SetRecordLen(SubSeq(hello, 1, n), n - 5), n |-> n,
       whole |-> FALSE, sni |-> << >>, nameEnd |-> 0, class |-> "overrun"] :
          n \in 5..(Len(hello) - 1) }

ParseInputs ==
    UNION { PrefixesOf(ClientHello(sid, cs, b, es, a), FirstHostName(es),
                       NameEnd(sid, cs, b, es))
              \cup OverrunsOf(ClientHello(sid, cs, b, es, a)) :
                sid \in HelloSessionIDs, cs \in HelloCipherSuites,
                b \in HelloBefore, es \in HelloNameLists, a \in HelloAfter }

NoInput ==
    [data |-> << >>, n |-> 0, whole |-> FALSE, sni |-> << >>, nameEnd |-> 0,
     class |-> "none"]

\* string(data[a:b]) for the names the registry knows; any other byte is "?".
RECURSIVE StringOf(_)
StringOf(bytes) ==
    IF bytes = << >> THEN ""
    ELSE (CASE Head(bytes) = 104 -> "h" [] Head(bytes) = 103 -> "g"
            [] Head(bytes) = 72 -> "H" [] OTHER -> "?")
             \o StringOf(Tail(bytes))

\* A well-formed ClientHello record of n bytes in all, with SNI "h": the
\* length is made up by a padding extension (type 21).
HelloOfLen(n) ==
    LET es == << [type |-> 0, name |-> NameH] >>
        base == Len(ClientHello(<< >>, << 0, 47 >>, << >>, es, Extension(21, << >>)))
    IN  ClientHello(<< >>, << 0, 47 >>, << >>, es, Extension(21, Fill(n - base, 0)))

\* The name "H", as bytes, and a well-formed ClientHello record of PeekSize
\* bytes with that server_name.
NameUpperH == << 72 >>

HelloUpper ==
    LET es == << [type |-> 0, name |-> NameUpperH] >>
        base == Len(ClientHello(<< >>, << 0, 47 >>, << >>, es, Extension(21, << >>)))
    IN  ClientHello(<< >>, << 0, 47 >>, << >>, es,
                    Extension(21, Fill(PeekSize - base, 0)))

\* Records shorter than, as long as, and longer than the peek window.
HelloShort == HelloOfLen(PeekSize - 3)
HelloExact == HelloOfLen(PeekSize)
HelloLong == HelloOfLen(PeekSize + 3)
\* PeekSize bytes that are no ClientHello: a handshake header, and a session
\* id length that leads the parser to the very end of the data.
HelloCrafted ==
    [i \in 1..PeekSize |->
        CASE i = 1 -> 22 [] i = 2 -> 3 [] i = 3 -> 1 [] i = 4 -> 0
          [] i = 5 -> PeekSize - 5 [] i = 6 -> 1 [] i = 44 -> PeekSize - 44
          [] OTHER -> 0]

\* PeekSize bytes that fail one check of the parser or more: a ClientHello
\* record turned into a ServerHello (handshake type 2), that with the record
\* version 3.4 as well, and that with the record type 0x15 (alert) as well.
HelloNotClientHello == [HelloExact EXCEPT ![6] = 2]
HelloBadVersion == [HelloNotClientHello EXCEPT ![3] = 4]
HelloAlert == [HelloBadVersion EXCEPT ![1] = 21]
\* Well-formed ClientHello records of PeekSize bytes without a server_name
\* extension: one whose only extension is padding, and one that ends after
\* the compression methods (the extensions block is optional, RFC 5246
\* 7.4.1.2), with a session id of 31 bytes and 87 cipher suites.
HelloNoSNI ==
    LET exts == Extension(21, Fill(PeekSize - Len(HelloHead(<< >>, << 0, 47 >>, 0)) - 4, 0))
    IN  HelloHead(<< >>, << 0, 47 >>, Len(exts)) \o exts
HelloNoExtensions ==
    LET body == << 3, 3 >> \o Fill(32, 7) \o << 31 >> \o Fill(31, 9)
                    \o U16Bytes(174) \o Fill(174, 47) \o << 1, 0 >>
    IN  << 22, 3, 1 >> \o U16Bytes(Len(body) + 4) \o << 1 >>
            \o U24Bytes(Len(body)) \o body

\* What a client does on one connection: the first bytes it writes, the bytes
\* it writes after them without waiting, and what it does then (wait for the
\* reply, close its write side, or close the connection); and what the
\* backend does: whether it can be reached, when it replies (once it has the
\* first bytes, once it sees the end of the stream, never) and whether it
\* closes after that or stays open.
ClientHellos ==
    { HelloShort, HelloExact, HelloLong, HelloCrafted,
      HelloAlert, HelloBadVersion, HelloNotClientHello, HelloNoSNI,
      HelloNoExtensions, HelloUpper }

\* What the first bytes of a connection are.
HelloClass(hello) ==
    CASE hello \in { HelloShort, HelloExact, HelloLong } -> "valid"
      [] hello = HelloUpper -> "upper"
      [] hello = HelloAlert -> "alert"
      [] hello = HelloBadVersion -> "version"
      [] hello = HelloNotClientHello -> "notClientHello"
      [] hello = HelloNoSNI -> "noSNI"
      [] hello = HelloNoExtensions -> "noExtensions"
      [] OTHER -> "crafted"
ClientData == { << >>, << 1, 2, 3, 4, 5 >> }
ClientEnds == { "wait", "closeWrite", "close" }
BackendModes == { "onHello", "onEOF", "silent" }
BackendEnds == { "close", "stay" }
ReplyBytes == << 79, 75 >>

\* No connection is being handled.
NoConn ==
    [phase |-> "none", accepted |-> 0, outcome |-> "none",
     hello |-> << >>, valid |-> FALSE, registered |-> FALSE,
     class |-> "none", err |-> "",
     cTodo |-> << >>, cEnd |-> "wait", cState |-> "open",
     sent |-> << >>, c2p |-> << >>, bufr |-> << >>, peeked |-> << >>,
     reach |-> FALSE, bMode |-> "silent", bEnd |-> "stay", bState |-> "none",
     toB |-> << >>, bSent |-> << >>, b2p |-> << >>, toC |-> << >>,
     up |-> "no", down |-> "no", eofToB |-> FALSE, eofToC |-> FALSE,
     cSock |-> "none", bSock |-> "none"]

IsPrefix(a, b) == Len(a) <= Len(b) /\ SubSeq(b, 1, Len(a)) = a

\* ---------------------------------------------------------------- Init
\* The keys of Config.Cache the model uses, as handleHTTPRequest builds them.
CacheKeys == { "h:/x", "h:/x?a=1" }

NoPuts == [k \in CacheKeys |-> [written |-> {}, stored |-> FALSE, last |-> ""]]

\* activeConnections, totalRequests, requestErrors as prometheus creates
\* them; errorsSent counts the 4xx and 5xx responses handleHTTPRequest wrote
\* with http.Error.
NoMetrics ==
    [activeConnections |-> 0, totalRequests |-> 0, requestErrors |-> 0,
     errorsSent |-> 0]

\* The proxy after main has built its Config, before any call.
ProxyInit(ops) ==
    /\ puts = NoPuts
    /\ metrics = NoMetrics
    /\ conn = NoConn
    /\ listening = TRUE
    /\ Backends = EmptyMap
    /\ BackendIndices = EmptyMap
    /\ pc = [p \in Procs |-> "idle"]
    /\ arg = [p \in Procs |-> NoArg]
    /\ loc = [p \in Procs |-> NoLoc]
    /\ ret = NoRet
    /\ opsLeft = ops
    /\ order = [s \in Selectors |-> << >>]
    /\ returned = [s \in Selectors |-> << >>]
    /\ epoch = [s \in Selectors |-> [cursor0 |-> 0, clean |-> TRUE]]
    /\ regHist = [s \in Selectors |->
                     [started |-> {}, done |-> {}, conc |-> FALSE, dup |-> FALSE]]
    /\ Cache = EmptyMap
    /\ forwards = << >>

RegistryInit(ops) ==
    /\ ProxyInit(ops)
    /\ parseIn = NoInput
    /\ parseOut = NoParse

\* The L4 proxy: the registry, reached through addBackend, removeBackend and
\* getNextBackend.
Init ==
    /\ RegistryInit(MaxOps)
    /\ cacheOn = FALSE
    /\ observe = TRUE

\* ---------------------------------------------------------- addBackend
\* config.Backends.LoadOrStore(sni, &sync.Map{})
AddLoadOrStore(p, s, b) ==
    /\ pc[p] = "idle"
    /\ opsLeft > 0
    /\ opsLeft' = opsLeft - 1
    /\ Backends' = MapLoadOrStore(Backends, s, EmptyMap)
    /\ pc' = [pc EXCEPT ![p] = "addStore"]
    /\ arg' = [arg EXCEPT ![p] = [op |-> "Register", sni |-> s, backend |-> b]]
    /\ ret' = NoRet
    /\ regHist' = IF observe
                   THEN [regHist EXCEPT ![s] =
                            [started |-> @.started \cup {b},
                             done |-> @.done,
                             conc |-> @.conc \/ \E q \in Procs \ {p} :
                                         InRegister(q) /\ arg[q].sni = s,
                             dup |-> @.dup]]
                   ELSE regHist
    /\ UNCHANGED << BackendIndices, loc, order, returned, epoch, l7vars >>

\* Fault: one pool behind every selector, as when LoadOrStore is handed the
\* same *sync.Map each time.
PoolStoreShared(backends, s, b) ==
    [t \in DOMAIN backends |-> MapStore(backends[t], b, TRUE)]

\* backends := value.(*sync.Map); backends.Store(backend, true): the Store on
\* the pool that LoadOrStore returned for sni.
PoolStore(backends, s, b) == [backends EXCEPT ![s] = MapStore(@, b, TRUE)]

\* backends.Store(backend, true)
AddStore(p) ==
    LET s == arg[p].sni
        b == arg[p].backend
    IN  /\ pc[p] = "addStore"
        /\ Backends' = PoolStore(Backends, s, b)
        /\ pc' = [pc EXCEPT ![p] = "idle"]
        /\ arg' = [arg EXCEPT ![p] = NoArg]
        /\ ret' = Returns("Register", s, "Registered", b)
        /\ loc' = RangeSeesStore(s, b)
        /\ order' = [order EXCEPT ![s] =
                        IF b \in Keys(s) \/ ~observe THEN @ ELSE Append(@, b)]
        /\ PoolChanged(s, Keys(s), Keys(s) \cup {b})
        /\ regHist' = IF observe
                       THEN [regHist EXCEPT ![s].done = @ \cup {b},
                                            ![s].dup = @ \/ b \in Keys(s)]
                       ELSE regHist
        /\ UNCHANGED << BackendIndices, opsLeft, l7vars >>

\* ---------------------------------------------- startRegistrationServer
\* A request body, as json.Decoder reads it: the first JSON value of the
\* stream (an object with the two fields, text that is no JSON value, or
\* nothing at all) and the bytes that follow that value.
RegistrationBodies ==
    { [json |-> "object", name |-> n, address |-> a, rest |-> r] :
          n \in {"h", ""}, a \in {"A", "B", ""}, r \in {"", "x"} }
    \cup { [json |-> j, name |-> "", address |-> "", rest |-> ""] :
               j \in {"syntax", "empty"} }

HTTPMethods == {"POST", "GET"}

\* The body is one JSON value and nothing else.
WellFormedJSON(body) == body.json = "object" /\ body.rest = ""

\* json.NewDecoder(r.Body).Decode(&registration): Decode reads the next JSON
\* value of the stream and returns; it does not look at what follows.
DecodeRegistration(body) ==
    IF body.json = "object"
    THEN [ok |-> TRUE, name |-> body.name, address |-> body.address]
    ELSE [ok |-> FALSE, name |-> "", address |-> ""]

\* The status of http.Error for a request the handler turns down, 0 for a
\* request it goes on to register.
RegistrationStatus(method, body) ==
    LET registration == DecodeRegistration(body)
    IN  IF method # "POST" THEN 405
        ELSE IF ~registration.ok THEN 400
        ELSE IF registration.name = "" \/ registration.address = "" THEN 400
        ELSE 0

\* The handler of /register up to its call of addBackend.
RegistrationRequest(p, method, body) ==
    LET status == RegistrationStatus(method, body)
        registration == DecodeRegistration(body)
    IN  /\ pc[p] = "idle"
        /\ opsLeft > 0
        /\ opsLeft' = opsLeft - 1
        /\ IF status # 0
           THEN /\ ret' = [op |-> "Registration", status |-> status,
                           method |-> method, body |-> body]
                /\ UNCHANGED << pc, arg >>
           ELSE /\ pc' = [pc EXCEPT ![p] = "regAdd"]
                /\ arg' = [arg EXCEPT ![p] =
                              [op |-> "Register", sni |-> registration.name,
                               backend |-> registration.address,
                               method |-> method, body |-> body]]
                /\ ret' = NoRet
        /\ UNCHANGED << Backends, BackendIndices, loc, hist, l7vars >>

\* addBackend(config, registration.Name, registration.Address): its
\* LoadOrStore; AddStore is its Store, followed by w.WriteHeader(200).
RegistrationAdd(p) ==
    /\ pc[p] = "regAdd"
    /\ Backends' = MapLoadOrStore(Backends, arg[p].sni, EmptyMap)
    /\ pc' = [pc EXCEPT ![p] = "addStore"]
    /\ UNCHANGED << BackendIndices, arg, loc, ret, opsLeft, hist, l7vars >>

\* ------------------------------------------------------- removeBackend
\* value, ok := config.Backends.Load(sni); if !ok { return }
RemoveLoad(p, s, b) ==
    /\ pc[p] = "idle"
    /\ opsLeft > 0
    /\ opsLeft' = opsLeft - 1
    /\ IF MapHas(Backends, s)
       THEN /\ pc' = [pc EXCEPT ![p] = "removeDelete"]
            /\ arg' = [arg EXCEPT ![p] =
                          [op |-> "Deregister", sni |-> s, backend |-> b]]
            /\ ret' = NoRet
       ELSE /\ UNCHANGED << pc, arg >>
            /\ ret' = Returns("Deregister", s, "NotFound", b)
    /\ UNCHANGED << Backends, BackendIndices, loc, hist, l7vars >>

\* backends.Delete(backend)
RemoveDelete(p) ==
    LET s == arg[p].sni
        b == arg[p].backend
    IN  /\ pc[p] = "removeDelete"
        /\ Backends' = [Backends EXCEPT ![s] = MapDelete(@, b)]
        /\ pc' = [pc EXCEPT ![p] = "idle"]
        /\ arg' = [arg EXCEPT ![p] = NoArg]
        /\ ret' = Returns("Deregister", s, "Removed", b)
        /\ loc' = RangeSeesDelete(s, b)
        /\ order' = [order EXCEPT ![s] = IF observe THEN SeqWithout(@, b) ELSE @]
        /\ PoolChanged(s, Keys(s), Keys(s) \ {b})
        /\ UNCHANGED << BackendIndices, opsLeft, regHist, l7vars >>

\* ------------------------------------------------------ getNextBackend
\* r.Body and r.Header of the client's request: a POST carries a body and
\* its Content-Type, a GET neither.
RequestBody(m) == IF m = "POST" THEN "d" ELSE ""

RequestHeader(m) == IF m = "POST" THEN {"Accept", "Content-Type"} ELSE {"Accept"}

\* No request was built for the backend.
NoRequest ==
    [method |-> "", backend |-> "", path |-> "", query |-> "", body |-> "",
     header |-> {}]

\* req, err := http.NewRequest(r.Method, backendURL+r.URL.Path, r.Body);
\* req.Header = r.Header: the URL of the request is the backend's URL followed
\* by the path of the client's URL, and nothing of its query.
UpstreamRequest(backend, m, u) ==
    [method |-> m, backend |-> backend, path |-> u.path, query |-> "",
     body |-> RequestBody(m), header |-> RequestHeader(m)]

\* What handleHTTPRequest has written when it returns: status 0 stands for a
\* handler that panicked, which net/http recovers by dropping the connection.
Responds(p, status, body, cached, forwarded) ==
    [op |-> "Handle", sni |-> arg[p].sni, method |-> arg[p].method,
     url |-> arg[p].url, after |-> arg[p].after, status |-> status,
     body |-> body, cached |-> cached, forwarded |-> forwarded,
     next |-> "none", upstream |-> "none", req |-> NoRequest]

\* The handler variant with the metrics is the one with the cache commented
\* out.
MetricsOn == ~cacheOn

\* activeConnections.Inc(); defer activeConnections.Dec(); totalRequests.Inc()
HandlerEnters(m) ==
    IF MetricsOn
    THEN [m EXCEPT !.activeConnections = @ + 1, !.totalRequests = @ + 1]
    ELSE m

\* Fault: activeConnections.Dec() at the end of the function, next to
\* requestLatency.Observe, where only a forwarded response arrives.
gaugeAfterSuccessOnly(active, status) ==
    IF status \in Statuses THEN active - 1 ELSE active

\* The deferred activeConnections.Dec(): it runs on every return of the
\* handler and when a panic unwinds it.
gaugeAfterExit(active, status) == active - 1

\* The handler returns having written status with http.Error (generated) or
\* from the backend's response, or panics (status 0). No statement of the
\* program increments requestErrors.
HandlerLeaves(m, status, generated) ==
    IF MetricsOn
    THEN [m EXCEPT !.activeConnections = gaugeAfterExit(@, status),
                   !.errorsSent = IF generated /\ status >= 400 THEN @ + 1 ELSE @]
    ELSE m

\* http.Error(w, "No backend available", http.StatusServiceUnavailable)
NoBackendStatus == 503

\* getNextBackend returns (kind, b) to its caller. A caller of the registry
\* is done; handleHTTPRequest goes on with the backend, answers 503 on an
\* error, and is aborted by a panic; handleConnection goes on at the
\* statement after the call (L4AfterNext).
NextReturns(p, kind, b) ==
    IF IsConn(p)
    THEN /\ pc' = [pc EXCEPT ![p] = "l4Ret"]
         /\ arg' = [arg EXCEPT ![p].kind = kind, ![p].backend = b]
         /\ ret' = ret
         /\ metrics' = metrics
    ELSE IF IsHandle(p)
    THEN IF kind = "Backend"
         THEN /\ pc' = [pc EXCEPT ![p] = "hDo"]
              /\ arg' = [arg EXCEPT ![p].backend = b]
              /\ ret' = ret
              /\ metrics' = metrics
         ELSE /\ pc' = [pc EXCEPT ![p] = "idle"]
              /\ arg' = [arg EXCEPT ![p] = NoArg]
              /\ ret' = [(IF kind = "NoBackend"
                           THEN Responds(p, NoBackendStatus, "No backend available",
                                         FALSE, FALSE)
                           ELSE Responds(p, 0, "", FALSE, FALSE))
                            EXCEPT !.next = kind]
              /\ metrics' = HandlerLeaves(metrics,
                                IF kind = "NoBackend" THEN NoBackendStatus ELSE 0, TRUE)
    ELSE /\ pc' = [pc EXCEPT ![p] = "idle"]
         /\ arg' = [arg EXCEPT ![p] = NoArg]
         /\ ret' = Returns("Next", arg[p].sni, kind, b)
         /\ metrics' = metrics

\* Fault: the cursor of the selector is created before the checks that return
\* the error.
indicesCreatedFirst(indices, s) == MapLoadOrStore(indices, s, 0)

\* config.BackendIndices when getNextBackend returns its error: both returns
\* come before the LoadOrStore of the cursor.
indicesAfterNoBackend(indices, s) == indices

\* value, ok := config.Backends.Load(sni); if !ok { return "", error }.
\* On success the call goes on to backends.Range: no statement of the program
\* deletes a selector from config.Backends, so the Load and the start of the
\* Range are taken in one step.
NextLoad(p, s) ==
    /\ pc[p] = "idle"
    /\ opsLeft > 0
    /\ opsLeft' = opsLeft - 1
    /\ IF MapHas(Backends, s)
       THEN /\ pc' = [pc EXCEPT ![p] = "nextRange"]
            /\ arg' = [arg EXCEPT ![p] = [op |-> "Next", sni |-> s, backend |-> ""]]
            /\ loc' = [loc EXCEPT ![p] =
                          [list |-> << >>, index |-> 0, must |-> Keys(s), may |-> {}]]
            /\ ret' = NoRet
            /\ BackendIndices' = BackendIndices
       ELSE /\ UNCHANGED << pc, arg, loc >>
            /\ ret' = Returns("Next", s, "NoBackend", "")
            /\ BackendIndices' = indicesAfterNoBackend(BackendIndices, s)
    /\ UNCHANGED << Backends, hist, l7vars >>

\* backends.Range(...) has built backendList; if len(backendList) == 0
\* { return "", error }
NextRange(p) ==
    /\ pc[p] = "nextRange"
    /\ \E seen \in SUBSET loc[p].may :
       \E l \in RangeOrders(loc[p].must \cup seen) :
          IF Len(l) = 0
          THEN /\ loc' = [loc EXCEPT ![p] = NoLoc]
               /\ NextReturns(p, "NoBackend", "")
               /\ BackendIndices' = indicesAfterNoBackend(BackendIndices, arg[p].sni)
          ELSE /\ pc' = [pc EXCEPT ![p] = "nextIndex"]
               /\ loc' = [loc EXCEPT ![p] =
                             [list |-> l, index |-> 0, must |-> {}, may |-> {}]]
               /\ UNCHANGED << arg, ret, metrics, BackendIndices >>
    /\ UNCHANGED << Backends, opsLeft, hist, l7rest >>

\* indexValue, _ := config.BackendIndices.LoadOrStore(sni, 0)
NextIndex(p) ==
    LET s == arg[p].sni
    IN  /\ pc[p] = "nextIndex"
        /\ BackendIndices' = MapLoadOrStore(BackendIndices, s, 0)
        /\ loc' = [loc EXCEPT ![p].index = BackendIndices'[s]]
        /\ pc' = [pc EXCEPT ![p] = "nextPick"]
        /\ UNCHANGED << Backends, arg, ret, opsLeft, hist, l7vars >>

\* The index stored by getNextBackend after picking at index from a list
\* of length n.
NextCursor(index, n) == (index + 1) % n

\* backend := backendList[index]: a Go slice index out of range panics.
\* config.BackendIndices.Store(sni, (index+1)%len(backendList))
NextPick(p) ==
    LET s == arg[p].sni
        l == loc[p].list
        i == loc[p].index
    IN  /\ pc[p] = "nextPick"
        /\ loc' = [loc EXCEPT ![p] = NoLoc]
        /\ IF i >= Len(l)
           THEN /\ NextReturns(p, "Panic", "")
                /\ UNCHANGED << BackendIndices, returned >>
           ELSE /\ NextReturns(p, "Backend", l[i + 1])
                /\ BackendIndices' = MapStore(BackendIndices, s, NextCursor(i, Len(l)))
                /\ returned' = [returned EXCEPT ![s] =
                                   IF observe THEN Append(@, l[i + 1]) ELSE @]
        /\ UNCHANGED << Backends, opsLeft, order, epoch, regHist, l7rest >>

\* --------------------------------------------------- handleHTTPRequest
\* r.URL.String() of a request URL: the path, and "?" and the raw query if
\* there is one.
URLString(u) == IF u.query = "" THEN u.path ELSE u.path \o "?" \o u.query

\* cacheKey := fmt.Sprintf("%s:%s", host, r.URL.String())
CacheKey(host, u) == host \o ":" \o URLString(u)

\* Fault: a lookup that never finds the key.
getFromCacheMisses(key) == [found |-> FALSE, value |-> ""]

getFromCache(key) ==
    IF MapHas(Cache, key)
    THEN [found |-> TRUE, value |-> Cache[key]]
    ELSE [found |-> FALSE, value |-> ""]

\* Fault: the response is not kept.
storeInCacheDropped(cache, key, data) == cache

storeInCache(cache, key, data) == MapStore(cache, key, data)

\* Whether a request with this Host, method and URL was answered by a backend
\* before.
Forwarded(h, m, u) ==
    \E i \in DOMAIN forwards :
        forwards[i].host = h /\ forwards[i].method = m /\ forwards[i].url = u

\* The body of the last entry of forwards whose index is in I ("" if none).
LastBodyAt(I) ==
    IF I = {} THEN "" ELSE forwards[CHOOSE i \in I : \A j \in I : j <= i].body

\* The body a backend returned last for Host h and URL u, whatever the method.
LastBodyFor(h, u) ==
    LastBodyAt({ i \in DOMAIN forwards :
                    forwards[i].host = h /\ forwards[i].url = u })

\* The body a backend returned last for Host h, method m and URL u.
LastBodyOf(h, m, u) ==
    LastBodyAt({ i \in DOMAIN forwards :
                    forwards[i].host = h /\ forwards[i].method = m
                        /\ forwards[i].url = u })

\* Fault: no return after w.Write(cachedResponse); the handler goes on to
\* getNextBackend.
AfterCacheHitGoesOn == "hNext"

\* Where handleHTTPRequest is after w.Write(cachedResponse): return.
AfterCacheHit == "idle"

\* host := r.Host; with the cache: the lookup, and on a hit w.Write(cached)
\* and return. Without it (the lookup is commented out) straight on.
HandleStart(p, h, m, u) ==
    LET hit == getFromCache(CacheKey(h, u))
        a == [op |-> "Handle", sni |-> h, backend |-> "", method |-> m, url |-> u,
              after |-> Forwarded(h, m, u), status |-> 0, body |-> ""]
    IN  /\ pc[p] = "idle"
        /\ opsLeft > 0
        /\ opsLeft' = opsLeft - 1
        /\ IF cacheOn /\ hit.found
           THEN /\ pc' = [pc EXCEPT ![p] = AfterCacheHit]
                /\ arg' = [arg EXCEPT ![p] = IF AfterCacheHit = "idle" THEN NoArg ELSE a]
                /\ ret' = [op |-> "Handle", sni |-> h, method |-> m, url |-> u,
                           after |-> a.after, status |-> 200, body |-> hit.value,
                           cached |-> TRUE, forwarded |-> FALSE,
                           next |-> "none", upstream |-> "none",
                           req |-> NoRequest]
                /\ metrics' = metrics
           ELSE /\ pc' = [pc EXCEPT ![p] = "hNext"]
                /\ arg' = [arg EXCEPT ![p] = a]
                /\ ret' = NoRet
                /\ metrics' = HandlerEnters(metrics)
        /\ UNCHANGED << Backends, BackendIndices, loc, hist, l7rest >>

\* backendURL, err := getNextBackend(config, host): its first statement, the
\* Load of config.Backends; if err != nil { http.Error(w, ..., 503) }
HandleNextLoad(p) ==
    LET s == arg[p].sni
    IN  /\ pc[p] = "hNext"
        /\ IF MapHas(Backends, s)
           THEN /\ pc' = [pc EXCEPT ![p] = "nextRange"]
                /\ loc' = [loc EXCEPT ![p] =
                              [list |-> << >>, index |-> 0, must |-> Keys(s), may |-> {}]]
                /\ UNCHANGED << arg, ret, metrics >>
           ELSE /\ loc' = loc
                /\ NextReturns(p, "NoBackend", "")
        /\ UNCHANGED << Backends, BackendIndices, opsLeft, hist, l7rest >>

\* The statements of the exchange with the backend that can fail:
\* http.NewRequest (the method or the backend URL does not parse), client.Do
\* (no connection, or it breaks before the response's header has arrived),
\* io.ReadAll(resp.Body) (the connection breaks before the end of the body).
UpstreamFailures == { "newRequest", "do", "readAll" }

\* The http.Error call that follows each of them.
UpstreamError(up) ==
    CASE up = "newRequest" -> [status |-> 500, text |-> "Failed to create request"]
      [] up = "do" -> [status |-> 502, text |-> "Failed to connect to backend"]
      [] up = "readAll" -> [status |-> 500, text |-> "Failed to read backend response"]

\* Fault: storeInCache(config, cacheKey, ...) is reached on the error paths
\* too, with what the handler has at hand.
cacheAfterFailureStored(cache, key, data) == MapStore(cache, key, data)

\* Config.Cache when handleHTTPRequest returns from one of its error
\* branches: each returns before the call of storeInCache.
cacheAfterFailure(cache, key, data) == cache

\* http.NewRequest (500 on error), client.Do (502 on error),
\* io.ReadAll(resp.Body) (500 on error): the exchange with the backend.
HandleDo(p) ==
    /\ pc[p] = "hDo"
    /\ \/ /\ \E up \in UpstreamFailures :
                /\ ret' = [Responds(p, UpstreamError(up).status, UpstreamError(up).text,
                                    FALSE, up # "newRequest")
                              EXCEPT !.next = "Backend", !.upstream = up,
                                     !.req = IF up = "newRequest" THEN NoRequest
                                             ELSE UpstreamRequest(arg[p].backend,
                                                      arg[p].method, arg[p].url)]
                /\ metrics' = HandlerLeaves(metrics, UpstreamError(up).status, TRUE)
                /\ Cache' = IF cacheOn
                            THEN cacheAfterFailure(Cache,
                                     CacheKey(arg[p].sni, arg[p].url),
                                     UpstreamError(up).text)
                            ELSE Cache
          /\ pc' = [pc EXCEPT ![p] = "idle"]
          /\ arg' = [arg EXCEPT ![p] = NoArg]
       \/ /\ \E st \in Statuses, bd \in Bodies :
                arg' = [arg EXCEPT ![p].status = st, ![p].body = bd]
          /\ pc' = [pc EXCEPT ![p] = "hStore"]
          /\ ret' = ret
          /\ metrics' = metrics
          /\ Cache' = Cache
    /\ UNCHANGED << Backends, BackendIndices, loc, opsLeft, hist, cacheOn, forwards,
                    observe, puts, l4vars, parsevars >>

\* storeInCache(config, cacheKey, body) (commented out in the variant without
\* the cache); w.WriteHeader(resp.StatusCode); w.Write(body)
HandleStore(p) ==
    LET a == arg[p]
    IN  /\ pc[p] = "hStore"
        /\ Cache' = IF cacheOn
                    THEN storeInCache(Cache, CacheKey(a.sni, a.url), a.body)
                    ELSE Cache
        /\ forwards' = Append(forwards, [host |-> a.sni, method |-> a.method,
                                         url |-> a.url, body |-> a.body,
                                         status |-> a.status,
                                         req |-> UpstreamRequest(a.backend,
                                                     a.method, a.url)])
        /\ ret' = [Responds(p, a.status, a.body, FALSE, TRUE)
                      EXCEPT !.next = "Backend", !.upstream = "ok",
                             !.req = UpstreamRequest(a.backend, a.method, a.url)]
        /\ metrics' = HandlerLeaves(metrics, a.status, FALSE)
        /\ pc' = [pc EXCEPT ![p] = "idle"]
        /\ arg' = [arg EXCEPT ![p] = NoArg]
        /\ UNCHANGED << Backends, BackendIndices, loc, opsLeft, hist, cacheOn, observe,
                        puts, l4vars, parsevars >>

\* ------------------------------------------- getFromCache, storeInCache
\* storeInCache(config, key, data) is called: the arguments are evaluated.
CachePutCall(p, k, v) ==
    /\ pc[p] = "idle"
    /\ opsLeft > 0
    /\ opsLeft' = opsLeft - 1
    /\ pc' = [pc EXCEPT ![p] = "cachePut"]
    /\ arg' = [arg EXCEPT ![p] = [op |-> "Put", sni |-> "", backend |-> "",
                                  key |-> k, value |-> v]]
    /\ ret' = NoRet
    /\ puts' = [puts EXCEPT ![k].written = @ \cup {v}]
    /\ UNCHANGED << Backends, BackendIndices, loc, hist, Cache, cacheOn, forwards,
                    observe, l4vars, parsevars, metrics >>

\* config.Cache.Store(key, data), and the return of storeInCache.
CachePutStore(p) ==
    LET k == arg[p].key
        v == arg[p].value
    IN  /\ pc[p] = "cachePut"
        /\ Cache' = storeInCache(Cache, k, v)
        /\ pc' = [pc EXCEPT ![p] = "idle"]
        /\ arg' = [arg EXCEPT ![p] = NoArg]
        /\ ret' = [op |-> "Put", key |-> k, found |-> TRUE, value |-> v]
        /\ puts' = [puts EXCEPT ![k].stored = TRUE, ![k].last = v]
        /\ UNCHANGED << Backends, BackendIndices, loc, opsLeft, hist, cacheOn,
                        forwards, observe, l4vars, parsevars, metrics >>

\* value, ok := config.Cache.Load(key): the whole of getFromCache.
CacheGet(p, k) ==
    LET got == getFromCache(k)
    IN  /\ pc[p] = "idle"
        /\ opsLeft > 0
        /\ opsLeft' = opsLeft - 1
        /\ ret' = [op |-> "Get", key |-> k, found |-> got.found, value |-> got.value]
        /\ UNCHANGED << Backends, BackendIndices, pc, arg, loc, hist, l7vars >>

\* ------------------------------------ handleConnection, forwardTraffic
\* What the L4 data plane leaves alone.
notL4 == << Backends, BackendIndices, opsLeft, hist, Cache, cacheOn, forwards,
            observe, puts, parsevars, metrics >>

\* Fault: handleConnection and forwardTraffic without their defer statements.
deferredCloseForgotten(c) == c

\* defer bufferedConn.Close() of handleConnection and defer backendConn.Close()
\* of forwardTraffic: the proxy's ends of the client socket and, if it was
\* dialled, of the backend socket are closed, and each peer sees the end of
\* its stream. Deferred calls run when the function returns and when a panic
\* unwinds it.
deferredClose(c) ==
    [c EXCEPT !.cSock = "closed",
              !.bSock = IF c.bSock = "open" THEN "closed" ELSE @,
              !.eofToB = c.bSock = "open", !.eofToC = TRUE]

\* handleConnection returns with outcome o, and its deferred Close calls
\* run; a panic is not recovered anywhere and ends the process, and with it
\* every goroutine.
WorkerEnds(p, c, o) ==
    /\ conn' = [deferredClose(c) EXCEPT !.phase = "done", !.outcome = o]
    /\ listening' = (o # "panic")
    /\ pc' = IF o = "panic" THEN [q \in Procs |-> "dead"]
             ELSE [pc EXCEPT ![p] = "idle"]
    /\ arg' = [arg EXCEPT ![p] = NoArg]
    /\ ret' = Returns("Conn", arg[p].sni, o, arg[p].backend)

\* startProxy: conn, err := listener.Accept(); go handleConnection(conn, config);
\* bufferedConn := newBufferedConn(conn)
Accept(p, hello, data, cEnd, reach) ==
    /\ listening
    /\ pc[p] = "idle"
    /\ conn.phase \in {"none", "done"}
    /\ conn.accepted < MaxConns
    /\ conn' = [NoConn EXCEPT !.phase = "open", !.accepted = conn.accepted + 1,
                              !.cSock = "open",
                              !.hello = hello,
                              !.class = HelloClass(hello),
                              !.valid = HelloClass(hello) = "valid",
                              !.registered = Keys("h") # {},
                              !.cTodo = IF data = << >> THEN << hello >>
                                        ELSE << hello, data >>,
                              !.cEnd = cEnd, !.reach = reach]
    /\ pc' = [pc EXCEPT ![p] = "peek"]
    /\ arg' = [arg EXCEPT ![p] = [op |-> "Conn", sni |-> "", backend |-> "",
                                  kind |-> ""]]
    /\ ret' = NoRet
    /\ UNCHANGED << loc, listening, notL4 >>

\* The client writes its next bytes.
ClientWrite ==
    /\ conn.phase = "open"
    /\ conn.cState = "open"
    /\ conn.cTodo # << >>
    /\ conn' = [conn EXCEPT !.cTodo = Tail(@),
                            !.sent = @ \o Head(conn.cTodo),
                            !.c2p = @ \o Head(conn.cTodo)]
    /\ UNCHANGED << pc, arg, loc, ret, listening, notL4 >>

\* The client, having written everything, closes its write side or the
\* connection (a client that waits for the reply does neither).
ClientEnd ==
    /\ conn.phase = "open"
    /\ conn.cState = "open"
    /\ conn.cTodo = << >>
    /\ conn.cEnd # "wait"
    /\ conn' = [conn EXCEPT !.cState = IF conn.cEnd = "closeWrite"
                                        THEN "wclosed" ELSE "closed"]
    /\ UNCHANGED << pc, arg, loc, ret, listening, notL4 >>

\* The backend writes its reply: once it has read the client's first bytes,
\* or once it has seen the end of the client's stream.
BackendWrites ==
    /\ conn.phase = "open"
    /\ conn.bState = "open"
    /\ conn.bSent = << >>
    /\ IF conn.bMode = "onHello" THEN IsPrefix(conn.hello, conn.toB)
       ELSE IF conn.bMode = "onEOF" THEN conn.eofToB
       ELSE FALSE
    /\ conn' = [conn EXCEPT !.bSent = ReplyBytes, !.b2p = @ \o ReplyBytes]
    /\ UNCHANGED << pc, arg, loc, ret, listening, notL4 >>

\* The backend closes the connection: after its reply, or without one.
BackendCloses ==
    /\ conn.phase = "open"
    /\ conn.bState = "open"
    /\ conn.bEnd = "close"
    /\ conn.bSent # << >> \/ conn.bMode = "silent"
    /\ conn' = [conn EXCEPT !.bState = "closed"]
    /\ UNCHANGED << pc, arg, loc, ret, listening, notL4 >>

\* bufferedConn.Peek(253), b.r.Peek: the bufio.Reader fills its buffer from
\* the socket while it holds fewer than 253 bytes.
PeekFill(p) ==
    /\ pc[p] = "peek"
    /\ Len(conn.bufr) < PeekSize
    /\ conn.c2p # << >>
    /\ conn' = [conn EXCEPT !.bufr = @ \o conn.c2p, !.c2p = << >>]
    /\ UNCHANGED << pc, arg, loc, ret, listening, notL4 >>

\* parseSNI: "Return the raw SNI as the service name".
parseSNI(sni) == sni

\* extractSNI: Peek returns the first 253 bytes, or an error at the end of
\* the stream; parseTLSClientHello(buf); parseSNI; in handleConnection
\* if err != nil { return }.
PeekReturn(p) ==
    /\ pc[p] = "peek"
    /\ IF Len(conn.bufr) >= PeekSize
       THEN LET data == SubSeq(conn.bufr, 1, PeekSize)
                out == parseTLSClientHello(data)
                c == [conn EXCEPT !.peeked = data]
            IN  IF out.kind = "Name"
                THEN /\ conn' = c
                     /\ pc' = [pc EXCEPT ![p] = "l4Next"]
                     /\ arg' = [arg EXCEPT ![p].sni = parseSNI(StringOf(out.name))]
                     /\ UNCHANGED << ret, listening >>
                ELSE IF out.kind = "Error"
                THEN WorkerEnds(p, [c EXCEPT !.err = out.err], "parseError")
                ELSE WorkerEnds(p, c, "panic")
       ELSE /\ conn.c2p = << >>
            /\ conn.cState \in {"wclosed", "closed"}
            /\ WorkerEnds(p, conn, "peekError")
    /\ UNCHANGED << loc, notL4 >>

\* backendAddr, err := getNextBackend(config, serviceName): its first
\* statement, the Load of config.Backends.
L4NextLoad(p) ==
    LET s == arg[p].sni
    IN  /\ pc[p] = "l4Next"
        /\ IF MapHas(Backends, s)
           THEN /\ pc' = [pc EXCEPT ![p] = "nextRange"]
                /\ loc' = [loc EXCEPT ![p] =
                              [list |-> << >>, index |-> 0, must |-> Keys(s), may |-> {}]]
                /\ UNCHANGED << arg, ret >>
           ELSE /\ loc' = loc
                /\ NextReturns(p, "NoBackend", "")
        /\ UNCHANGED << l4vars, notL4 >>

\* Fault: the error of getNextBackend is not looked at.
errIgnored(kind) == TRUE

\* err == nil after backendAddr, err := getNextBackend(config, serviceName)
errIsNil(kind) == kind = "Backend"

\* if err != nil { return } after getNextBackend; a panic of getNextBackend
\* unwinds handleConnection.
L4AfterNext(p) ==
    /\ pc[p] = "l4Ret"
    /\ IF errIsNil(arg[p].kind)
       THEN /\ pc' = [pc EXCEPT ![p] = "dial"]
            /\ UNCHANGED << arg, ret, l4vars >>
       ELSE IF arg[p].kind = "NoBackend"
       THEN WorkerEnds(p, conn, "noBackend")
       ELSE WorkerEnds(p, conn, "panic")
    /\ UNCHANGED << loc, notL4 >>

\* forwardTraffic: backendConn, err := net.Dial("tcp", backendAddr); on
\* success the two copy goroutines are started, and the backend that took
\* the connection is one that behaves as bMode and bEnd say.
Dial(p, bMode, bEnd) ==
    /\ pc[p] = "dial"
    /\ IF conn.reach
       THEN /\ conn' = [conn EXCEPT !.bState = "open", !.bSock = "open",
                                     !.bMode = bMode, !.bEnd = bEnd,
                                     !.up = "run", !.down = "run"]
            /\ pc' = [pc EXCEPT ![p] = "wait"]
            /\ UNCHANGED << arg, ret, listening >>
       ELSE WorkerEnds(p, conn, "dialError")
    /\ UNCHANGED << loc, notL4 >>

\* Fault: Read of the embedded net.Conn, which passes the bufio.Reader by.
connReadUnbuffered(bufr, sock) == [data |-> sock, bufr |-> bufr, sock |-> << >>]

\* bufferedConn.Read, b.r.Read(p): the bytes the bufio.Reader holds if it
\* holds any, the bytes of the socket otherwise.
bufferedConnRead(bufr, sock) ==
    IF bufr # << >>
    THEN [data |-> bufr, bufr |-> << >>, sock |-> sock]
    ELSE [data |-> sock, bufr |-> << >>, sock |-> << >>]

\* io.Copy(backendConn, conn): one Read of the bufferedConn and the Write of
\* what it gave to the backend; at the end of the client's stream, or when
\* the Write fails, io.Copy returns and the goroutine sends on done.
CopyUp ==
    LET r == bufferedConnRead(conn.bufr, conn.c2p)
    IN  /\ conn.phase = "open"
        /\ conn.up = "run"
        /\ IF r.data # << >>
           THEN conn' = [conn EXCEPT
                            !.bufr = r.bufr, !.c2p = r.sock,
                            !.toB = IF conn.bState = "closed" THEN @ ELSE @ \o r.data,
                            !.up = IF conn.bState = "closed" THEN "err" ELSE "run"]
           ELSE /\ conn.cState \in {"wclosed", "closed"}
                /\ conn' = [conn EXCEPT !.up = "eof"]
        /\ UNCHANGED << pc, arg, loc, ret, listening, notL4 >>

\* io.Copy(conn, backendConn): one Read of the backend socket and the Write
\* to the client, through the embedded net.Conn.
CopyDown ==
    /\ conn.phase = "open"
    /\ conn.down = "run"
    /\ IF conn.b2p # << >>
       THEN conn' = [conn EXCEPT
                        !.b2p = << >>,
                        !.toC = IF conn.cState = "closed" THEN @ ELSE @ \o conn.b2p,
                        !.down = IF conn.cState = "closed" THEN "err" ELSE "run"]
       ELSE /\ conn.bState = "closed"
            /\ conn' = [conn EXCEPT !.down = "eof"]
    /\ UNCHANGED << pc, arg, loc, ret, listening, notL4 >>

\* Fault: a single receive from done.
oneDone(up, down) == up \in {"eof", "err"} \/ down \in {"eof", "err"}

\* <-done; <-done: each copy goroutine sends on done once, after its io.Copy
\* has returned, so the second receive returns when both have.
bothDone(up, down) == up \in {"eof", "err"} /\ down \in {"eof", "err"}

\* <-done; <-done; return nil: both copy goroutines have sent on done.
WaitBoth(p) ==
    /\ pc[p] = "wait"
    /\ bothDone(conn.up, conn.down)
    /\ WorkerEnds(p, conn, "forwarded")
    /\ UNCHANGED << loc, notL4 >>

\* ------------------------------------------------------- specifications
Register(p) ==
    \/ \E s \in Selectors, b \in BackendNames : AddLoadOrStore(p, s, b)
    \/ AddStore(p)

Deregister(p) ==
    \/ \E s \in Selectors, b \in BackendNames : RemoveLoad(p, s, b)
    \/ RemoveDelete(p)

GetNext(p) ==
    \/ \E s \in Selectors : NextLoad(p, s)
    \/ NextRange(p)
    \/ NextIndex(p)
    \/ NextPick(p)

Handle(p) ==
    \/ \E h \in Hosts, m \in Methods, u \in URLs : HandleStart(p, h, m, u)
    \/ HandleNextLoad(p)
    \/ NextRange(p)
    \/ NextIndex(p)
    \/ NextPick(p)
    \/ HandleDo(p)
    \/ HandleStore(p)

\* Goroutines call Register, Deregister and Next in any interleaving.
Next == \E p \in Procs : Register(p) \/ Deregister(p) \/ GetNext(p)

Spec == Init /\ [][Next]_vars

\* Register and Next only: the operations the control plane and the
\* forwarders call (removeBackend has no caller in the program).
InitReg ==
    /\ RegistryInit(MaxRegOps)
    /\ cacheOn = FALSE
    /\ observe = TRUE

NextReg == \E p \in Procs : Register(p) \/ GetNext(p)

SpecReg == InitReg /\ [][NextReg]_vars

\* A single caller: every call returns before the next one starts.
InitSeq ==
    /\ RegistryInit(MaxSeqOps)
    /\ cacheOn = FALSE
    /\ observe = TRUE

NextSeq == Register(1) \/ Deregister(1) \/ GetNext(1)

SpecSeq == InitSeq /\ [][NextSeq]_vars

\* A single caller that registers and calls Next: acknowledged registrations
\* followed by sequential Next calls, and no Deregister.
InitAck ==
    /\ RegistryInit(MaxSeqOps)
    /\ cacheOn = FALSE
    /\ observe = TRUE

NextAck == Register(1) \/ GetNext(1)

SpecAck == InitAck /\ [][NextAck]_vars

\* The L7 proxy: the registration API and the request handler, in either of
\* its two variants (with the cache, or with the cache commented out).
InitL7 ==
    /\ RegistryInit(MaxL7Ops)
    /\ cacheOn \in BOOLEAN
    /\ observe = FALSE

NextL7 == \E p \in Procs : Register(p) \/ Handle(p)

SpecL7 == InitL7 /\ [][NextL7]_vars

\* The L4 proxy: the listener and the worker of a connection, the copy
\* goroutines, the client and the backend at the two ends, and the control
\* plane registering backends.
Connection(p) ==
    \/ \E hello \in ClientHellos, data \in ClientData, cEnd \in ClientEnds,
          reach \in BOOLEAN :
            Accept(p, hello, data, cEnd, reach)
    \/ PeekFill(p)
    \/ PeekReturn(p)
    \/ L4NextLoad(p)
    \/ NextRange(p)
    \/ NextIndex(p)
    \/ NextPick(p)
    \/ L4AfterNext(p)
    \/ \E bMode \in BackendModes, bEnd \in BackendEnds : Dial(p, bMode, bEnd)
    \/ WaitBoth(p)

Peers == ClientWrite \/ ClientEnd \/ BackendWrites \/ BackendCloses

ConnStep == CopyUp \/ CopyDown \/ Peers \/ \E p \in Procs : Connection(p)

InitL4 ==
    /\ RegistryInit(MaxL4Ops)
    /\ cacheOn = FALSE
    /\ observe = FALSE

NextL4 == ConnStep \/ \E p \in Procs : Register(p)

SpecL4 == InitL4 /\ [][NextL4]_vars

\* The control plane: requests to /register, next to Next calls.
InitCtl ==
    /\ RegistryInit(MaxCtlOps)
    /\ cacheOn = FALSE
    /\ observe = FALSE

NextCtl ==
    \E p \in Procs :
        \/ \E m \in HTTPMethods, body \in RegistrationBodies :
              RegistrationRequest(p, m, body)
        \/ RegistrationAdd(p)
        \/ AddStore(p)
        \/ GetNext(p)

SpecCtl == InitCtl /\ [][NextCtl]_vars

\* The parser alone, run once on each input.
ParseCall ==
    /\ parseOut = NoParse
    /\ parseOut' = parseTLSClientHello(parseIn.data)
    /\ UNCHANGED << Backends, BackendIndices, pc, arg, loc, ret, opsLeft, hist,
                    Cache, cacheOn, forwards, observe, puts, l4vars, parseIn,
                    metrics >>

InitParse ==
    /\ ProxyInit(0)
    /\ cacheOn = FALSE
    /\ observe = FALSE
    /\ parseIn \in ParseInputs
    /\ parseOut = NoParse

NextParse == ParseCall

SpecParse == InitParse /\ [][NextParse]_vars

\* The cache alone: goroutines call storeInCache and getFromCache in any
\* interleaving.
InitCache ==
    /\ RegistryInit(MaxCacheOps)
    /\ cacheOn = TRUE
    /\ observe = FALSE

NextCache ==
    \E p \in Procs :
        \/ \E k \in CacheKeys, v \in Bodies : CachePutCall(p, k, v)
        \/ CachePutStore(p)
        \/ \E k \in CacheKeys : CacheGet(p, k)

SpecCache == InitCache /\ [][NextCache]_vars

\* ---------------------------------------------------------------- claims
AllIdle == \A p \in Procs : pc[p] = "idle"

\* Number of occurrences of b in the sequence q.
Count(q, b) == Len(SelectSeq(q, LAMBDA x : x = b))

\* C1: the cursor a Next call has read to pick a backend is at least 0 and
\* less than the length of the backend list the same call built from the pool.
C1_CursorInObservedPool ==
    \A p \in Procs :
        pc[p] = "nextPick" =>
            /\ 0 <= loc[p].index
            /\ loc[p].index < Len(loc[p].list)

\* C2: the step of Deregister that deletes a backend from a pool that stays
\* non-empty leaves the selector's cursor below the new pool size.
C2_DeregisterKeepsCursorValid ==
    [][\A p \in Procs :
          LET s == arg[p].sni
          IN  (pc[p] = "removeDelete" /\ pc'[p] = "idle"
                  /\ DOMAIN Backends'[s] # {})
              => (IF s \in DOMAIN BackendIndices' THEN BackendIndices'[s] ELSE 0)
                     < Cardinality(DOMAIN Backends'[s])]_vars

\* C3: with a single caller and an unchanged pool, the i-th Next since the
\* pool last changed returns the backend registered at position
\* (cursor + i - 1) mod |Pool|: registration order, period |Pool|; after
\* Register(h,A), Register(h,B), Register(h,C) four calls return A, B, C, A.
C3_NextFollowsInsertionOrder ==
    \A s \in Selectors :
        \A i \in DOMAIN returned[s] :
            returned[s][i] =
                order[s][((epoch[s].cursor0 + i - 1) % Len(order[s])) + 1]

\* C4: with a single caller and an unchanged pool of n >= 1 backends, after
\* k*n Next calls every backend of the pool was returned exactly k times.
C4_RoundRobinFair ==
    \A s \in Selectors :
        LET n == Cardinality(Keys(s))
        IN  (n >= 1 /\ Len(returned[s]) % n = 0) =>
                \A b \in Keys(s) : Count(returned[s], b) * n = Len(returned[s])

\* C5: for a fixed pool of size n and a cursor that was within it, once m
\* concurrent Next calls have all returned the cursor stands m steps (mod n)
\* after where it stood before them: no advance is lost.
C5_NoLostAdvance ==
    \A s \in Selectors :
        (/\ epoch[s].clean
         /\ epoch[s].cursor0 < Cardinality(Keys(s))
         /\ ~NextRunning(s)) =>
            Cursor(s) = (epoch[s].cursor0 + Len(returned[s])) % Cardinality(Keys(s))

\* C6: whatever the interleaving of Register and Next calls, every backend
\* whose Register has returned is in the selector's pool and the pool holds
\* nothing but backends passed to Register; once all calls have returned the
\* pool is exactly the set of registered backends.
C6_ConcurrentRegisterExact ==
    \A s \in Selectors :
        /\ regHist[s].done \subseteq Keys(s)
        /\ Keys(s) \subseteq regHist[s].started
        /\ AllIdle => Keys(s) = regHist[s].started

\* Two Register calls with distinct backends overlapped on a selector that
\* had no pool, and both have returned.
C6_Witness ==
    /\ AllIdle
    /\ opsLeft = MaxRegOps - 2
    /\ \E s \in Selectors : regHist[s].conc /\ Cardinality(Keys(s)) = 2

\* C7: each step of a Register call whose backend is already in the
\* selector's pool leaves the pools and the cursors as they were.
C7_RegisterIdempotent ==
    [][\A p \in Procs :
          (\/ /\ pc[p] = "idle" /\ pc'[p] = "addStore"
               /\ arg'[p].backend \in Keys(arg'[p].sni)
           \/ /\ pc[p] = "addStore" /\ pc'[p] = "idle"
               /\ arg[p].backend \in Keys(arg[p].sni))
          => /\ Backends' = Backends
             /\ BackendIndices' = BackendIndices]_vars

\* The same (selector, backend) was registered twice, next to another
\* backend of the same pool, and the pool holds one entry for it.
C7_Witness ==
    /\ AllIdle
    /\ \E s \in Selectors :
          /\ regHist[s].dup
          /\ Cardinality(Keys(s)) = Cardinality(regHist[s].started)
          /\ Cardinality(Keys(s)) = 2

\* C8: a Next call that has just returned (single caller) either failed with NoBackend on a
\* selector that has no pool or an empty one, or returned a member of the
\* selector's pool.
C8_NextNoBackendOrMember ==
    ret.op = "Next" =>
        \/ ret.kind = "NoBackend" /\ Keys(ret.sni) = {}
        \/ ret.kind = "Backend" /\ ret.backend \in Keys(ret.sni)

\* C9: when no call is running, no selector of the registry maps to an
\* empty pool.
C9_NoEmptyPool ==
    AllIdle => \A s \in DOMAIN Backends : DOMAIN Backends[s] # {}

C11_CacheKeyedByMethod ==
    (ret.op = "Handle" /\ ret.cached) =>
        Forwarded(ret.sni, ret.method, ret.url)

\* C12: a getFromCache that has just returned missed exactly if no Store on
\* its key was executed; on a hit its value is one that was passed to
\* storeInCache for that key, and it is the value stored last.
C12_GetReturnsLastPut ==
    ret.op = "Get" =>
        LET h == puts[ret.key]
        IN  /\ ret.found <=> h.stored
            /\ ret.found => /\ ret.value \in h.written
                            /\ ret.value = h.last

\* A Get hit on a key for which two values were written while a further
\* storeInCache on the same key is still in progress.
C12_Witness ==
    /\ ret.op = "Get" /\ ret.found
    /\ Cardinality(puts[ret.key].written) = 2
    /\ \E p \in Procs : pc[p] = "cachePut" /\ arg[p].key = ret.key

\* C13: on an L4 connection the bytes delivered to the backend are at every
\* moment a prefix of the bytes the client wrote, they begin with the bytes
\* Peek returned (themselves the first bytes the client wrote), and they are
\* all of them once the client-to-backend copy has reached the end of the
\* stream; likewise the bytes delivered to the client and the bytes the
\* backend wrote.
C13_Transparent ==
    /\ IsPrefix(conn.toB, conn.sent)
    /\ IsPrefix(conn.peeked, conn.sent)
    /\ conn.toB # << >> => IsPrefix(conn.peeked, conn.toB)
    /\ conn.up = "eof" => conn.toB = conn.sent
    /\ IsPrefix(conn.toC, conn.bSent)
    /\ conn.down = "eof" => conn.toC = conn.bSent

\* A session ended with both copies at the end of their streams: the
\* backend got the peeked bytes and the bytes written after them, the
\* client got the reply.
C13_Witness ==
    /\ conn.outcome = "forwarded"
    /\ conn.up = "eof" /\ conn.down = "eof"
    /\ Len(conn.toB) > PeekSize
    /\ conn.toC = ReplyBytes

\* C14: when a reachable backend was registered for S and the client has
\* written a whole valid ClientHello with SNI S and waits for the reply, the
\* worker has not given the connection up, and either the backend has the
\* ClientHello bytes or some step of the connection can still be taken.
C14_ValidHelloIsConnected ==
    (/\ conn.phase # "none"
     /\ conn.valid /\ conn.registered /\ conn.reach
     /\ conn.cEnd = "wait" /\ conn.cTodo = << >> /\ conn.sent = conn.hello) =>
        \/ IsPrefix(conn.hello, conn.toB)
        \/ conn.phase = "open" /\ ENABLED ConnStep

\* C15: a copy goroutine that has reached the end of its stream has
\* signalled the end of the stream to the peer it copies to.
C15_HalfCloseSignalled ==
    /\ conn.up = "eof" => conn.eofToB
    /\ conn.down = "eof" => conn.eofToC

\* C16: while a forwarding session whose client or backend has closed its
\* connection is not finished, some step of the connection can be taken.
C16_SessionEndsOnClose ==
    (/\ conn.phase = "open"
     /\ conn.bState # "none"
     /\ conn.cState = "closed" \/ conn.bState = "closed") =>
        ENABLED ConnStep

\* C17: whatever way the handling of a connection ended, the proxy is
\* still alive and listening.
C17_FailureStaysInWorker ==
    conn.phase = "done" => listening

\* C18: run on a whole well-formed ClientHello record whose server_name
\* extension has S as its first host_name entry, the parser returns exactly S.
C18_ParserReturnsFirstHostName ==
    (parseOut # NoParse /\ parseIn.whole) => parseOut = ParsedName(parseIn.sni)

\* C19: run on a proper prefix of a well-formed ClientHello record that ends
\* before the end of the SNI name, the parser returns an error: no name,
\* shortened or not, and no panic.
C19_PrefixIsAnError ==
    (parseOut # NoParse /\ parseIn.n < parseIn.nameEnd) => parseOut.kind = "Error"

\* The parser was run on a record cut one byte before the end of a name of
\* two bytes.
C19_Witness ==
    /\ parseOut.kind = "Error"
    /\ parseIn.n = parseIn.nameEnd - 1
    /\ Len(parseIn.sni) = 2

\* C20: a control-plane request that is not a POST, or whose body is not
\* well-formed JSON or has an empty selector or backend field, does not
\* reach addBackend: it is answered 405 (not a POST) or 400, and the step
\* that handles it leaves the pools and the cursors unchanged.
C20_BadRegistrationRejected ==
    [][/\ \A p \in Procs :
             (pc[p] = "idle" /\ pc'[p] = "regAdd") =>
                 /\ arg'[p].method = "POST"
                 /\ WellFormedJSON(arg'[p].body)
                 /\ arg'[p].sni # "" /\ arg'[p].backend # ""
       /\ (ret'.op = "Registration" /\ opsLeft' # opsLeft) =>
             /\ ret'.status = IF ret'.method # "POST" THEN 405 ELSE 400
             /\ Backends' = Backends
             /\ BackendIndices' = BackendIndices]_vars

\* C21: when the worker of a connection has ended, whichever way (peek
\* error, parse error, no backend, dial error, panic, both copies done), the
\* proxy has closed the client socket it accepted, and the backend socket if
\* it had opened one.
C21_SocketsClosedOnExit ==
    conn.phase = "done" =>
        /\ conn.cSock = "closed"
        /\ conn.bSock # "open"
        /\ conn.bState # "none" => conn.bSock = "closed"

\* A worker ended after forwarding: it had dialled the backend, and both
\* sockets are closed.
C21_Witness ==
    /\ conn.phase = "done"
    /\ conn.outcome = "forwarded"
    /\ conn.cSock = "closed" /\ conn.bSock = "closed"

\* C22: a worker that waits in the initial peek for bytes the client will
\* not send (the client has written fewer than the peek asks for and waits
\* for an answer) is not left there: some step of the connection, the expiry
\* of a read deadline that closes the connection, can still be taken.
C22_PeekHasDeadline ==
    (/\ conn.phase = "open"
     /\ \E p \in Procs : pc[p] = "peek"
     /\ Len(conn.sent) < PeekSize
     /\ conn.cTodo = << >> /\ conn.cEnd = "wait"
     /\ conn.c2p = << >>) =>
        ENABLED ConnStep

\* C23: the steps by which the worker of a connection finds that its
\* selector has no backend (getNextBackend returning its error) change
\* neither the pools, nor the cursors, nor the connection, and the step
\* after them ends the worker with the client socket closed and no backend
\* socket opened.
C23_NoBackendClosesClient ==
    [][\A p \in Procs :
          /\ (/\ IsConn(p) /\ pc[p] \in {"l4Next", "nextRange"}
               /\ pc'[p] = "l4Ret" /\ arg'[p].kind = "NoBackend")
                => /\ Backends' = Backends
                   /\ BackendIndices' = BackendIndices
                   /\ conn' = conn
          /\ (/\ pc[p] = "l4Ret" /\ arg[p].kind = "NoBackend"
               /\ pc'[p] # "l4Ret")
                => /\ Backends' = Backends
                   /\ BackendIndices' = BackendIndices
                   /\ conn'.phase = "done"
                   /\ conn'.outcome = "noBackend"
                   /\ conn'.cSock = "closed"
                   /\ conn'.bSock = "none"
                   /\ conn'.toB = << >>]_vars

\* A connection whose selector has no backend, while another selector has
\* one, was closed.
C23_Witness ==
    /\ conn.phase = "done"
    /\ conn.outcome = "noBackend"
    /\ conn.cSock = "closed" /\ conn.bSock = "none"
    /\ Keys("h") = {} /\ Keys("g") # {}

\* C24: a request that missed the cache and has just been answered got 503
\* if getNextBackend failed with NoBackend, and 502 if the exchange with the
\* chosen backend failed at transport level (no connection, or a connection
\* that broke before the whole response was read); in both cases what was
\* written is the forwarder's own error text, not a backend's response.
C24_MissErrorsAre503And502 ==
    (ret.op = "Handle" /\ ~ret.cached) =>
        /\ ret.next = "NoBackend" =>
               ret.status = 503 /\ ret.body \notin Bodies
        /\ ret.upstream \in {"do", "readAll"} =>
               ret.status = 502 /\ ret.body \notin Bodies

\* C25: in the handler variant with the metrics, requestErrors equals the
\* number of 4xx and 5xx responses the handler has generated itself.
C25_RequestErrorsCounted ==
    MetricsOn => metrics.requestErrors = metrics.errorsSent

\* C26: in the handler variant with the metrics, activeConnections equals
\* the number of handlers that have been entered and have not returned; it
\* is never negative, and it is 0 when no request is in flight.
C26_GaugeCountsHandlers ==
    MetricsOn =>
        /\ metrics.activeConnections = Cardinality({ p \in Procs : IsHandle(p) })
        /\ metrics.activeConnections >= 0
        /\ AllIdle => metrics.activeConnections = 0

\* Two requests were handled, the last one left through an error branch
\* (503, 502 or 500), and no request is in flight.
C26_Witness ==
    /\ MetricsOn
    /\ AllIdle
    /\ metrics.totalRequests = 2
    /\ ret.op = "Handle" /\ ret.status \in {500, 502, 503}
    /\ metrics.activeConnections = 0

\* The errors of the parser for a length field that points past the data.
MalformedErrors ==
    { "incomplete handshake record", "invalid ClientHello message",
      "invalid ClientHello session ID", "invalid ClientHello cipher suites",
      "invalid ClientHello compression methods",
      "extensions length exceeds data size",
      "extension length exceeds data size", "invalid SNI length" }

\* C27: whatever the input, the parser returns a name or an error and never
\* reads outside the input (which would abort the worker); on a record in
\* which a length field points past the available bytes it returns one of
\* its errors for malformed input.
C27_ParserNeverReadsOutside ==
    parseOut # NoParse =>
        /\ parseOut.kind \in {"Name", "Error"}
        /\ parseIn.class = "overrun" =>
               parseOut.kind = "Error" /\ parseOut.err \in MalformedErrors

\* The error of the first check that fails on the first bytes of each kind.
FirstFailingCheck(class) ==
    CASE class = "alert" -> "not a TLS handshake"
      [] class = "version" -> "unsupported TLS version"
      [] class = "notClientHello" -> "not a ClientHello message"
      [] class \in {"noSNI", "noExtensions"} -> "SNI not found in ClientHello"

\* C28: on a connection whose first bytes are not a handshake record, or
\* else have an unsupported version, or else are not a ClientHello, or are a
\* well-formed ClientHello without a server_name extension, the worker
\* never gets to select a backend, and when it has ended the parser had
\* reported the error of the first failing check, the client socket is
\* closed and no backend socket was opened.
C28_FirstFailingCheckCloses ==
    conn.class \in {"alert", "version", "notClientHello", "noSNI", "noExtensions"} =>
        /\ \A p \in Procs : IsConn(p) => pc[p] = "peek"
        /\ conn.phase = "done" =>
               /\ conn.outcome = "parseError"
               /\ conn.err = FirstFailingCheck(conn.class)
               /\ conn.cSock = "closed" /\ conn.bSock = "none"
               /\ ret.op = "Conn" => ret.backend = ""

\* C29: a step that changes the pool or the cursor of a selector, or
\* creates its entry in either map, is a step of a Register, Deregister or
\* Next call on that very selector: calls on one selector leave every other
\* selector as it was.
C29_SelectorsIndependent ==
    [][\A t \in Selectors :
          (\/ MapHas(Backends', t) # MapHas(Backends, t)
           \/ MapHas(BackendIndices', t) # MapHas(BackendIndices, t)
           \/ Keys(t)' # Keys(t)
           \/ Cursor(t)' # Cursor(t))
          => \E p \in Procs :
                /\ pc'[p] # pc[p]
                /\ t = IF pc[p] = "idle" THEN arg'[p].sni ELSE arg[p].sni]_vars

\* Two selectors have a pool each, and a Next on one of them has just
\* returned a backend and moved its cursor off 0.
C29_Witness ==
    /\ \A t \in Selectors : Keys(t) # {}
    /\ ret.op = "Next" /\ ret.kind = "Backend"
    /\ Cursor(ret.sni) # 0

\* C30: while one of the two copy goroutines of a connection is still
\* copying, the proxy has closed neither the client socket nor the backend
\* socket and the worker has not returned; a worker that returned after
\* forwarding saw both copies end.
C30_CloseAfterBothCopies ==
    /\ (conn.up = "run" \/ conn.down = "run") =>
           /\ conn.cSock = "open" /\ conn.bSock = "open"
           /\ conn.phase = "open"
           /\ \E p \in Procs : IsConn(p) /\ pc[p] = "wait"
    /\ conn.outcome = "forwarded" =>
           /\ conn.up \in {"eof", "err"}
           /\ conn.down \in {"eof", "err"}

\* A worker returned after one copy had reached the end of the client's
\* stream and the other had failed writing to the client, which had closed.
C30_Witness ==
    /\ conn.phase = "done"
    /\ conn.outcome = "forwarded"
    /\ conn.up = "eof" /\ conn.down = "err"
    /\ conn.cSock = "closed" /\ conn.bSock = "closed"

\* C31: the request a forwarder sent to the backend has the method, the path
\* and query string, the body and the header set of the client's request, and
\* two forwarded client requests that differ only in the query string were
\* sent upstream with different query strings.
C31_UpstreamSameAsClient ==
    /\ (ret.op = "Handle" /\ ret.upstream \in {"do", "readAll", "ok"}) =>
           /\ ret.req.method = ret.method
           /\ ret.req.path = ret.url.path
           /\ ret.req.query = ret.url.query
           /\ ret.req.body = RequestBody(ret.method)
           /\ ret.req.header = RequestHeader(ret.method)
    /\ \A i, j \in DOMAIN forwards :
           (/\ forwards[i].host = forwards[j].host
            /\ forwards[i].method = forwards[j].method
            /\ forwards[i].url.path = forwards[j].url.path
            /\ forwards[i].url.query # forwards[j].url.query) =>
               forwards[i].req.query # forwards[j].req.query

\* The selector of a Host header value as the specification defines it: the
\* name in lower case, without the port.
HostSelector(host) ==
    CASE host = "H" -> "h"
      [] host = "h:443" -> "h"
      [] OTHER -> host

\* C32: the pool a request is resolved in is the pool registered under its
\* Host in lower case without the port: the lookup of a request whose Host
\* is a registered selector, that name in another letter case or that name
\* followed by a port does not end in NoBackend, and it goes on with the
\* backends of that selector.
C32_HostSelectorNormalised ==
    [][\A p \in Procs :
          (pc[p] = "hNext" /\ Keys(HostSelector(arg[p].sni)) # {}) =>
             /\ pc'[p] # "idle"
             /\ pc'[p] = "nextRange" =>
                    loc'[p].must = Keys(HostSelector(arg[p].sni))]_vars

\* The selector of a server_name as the specification defines it: the name
\* in lower case.
SNISelector(name) == IF name = "H" THEN "h" ELSE name

\* C33: the pool a connection is routed in is the pool registered under its
\* server_name in lower case: the lookup for a ClientHello whose name is a
\* registered selector in another letter case does not end in NoBackend and
\* goes on with the backends of that selector.
C33_SNISelectorLowercased ==
    [][\A p \in Procs :
          (/\ pc[p] = "l4Next"
           /\ pc'[p] # "l4Next"
           /\ Keys(SNISelector(arg[p].sni)) # {}) =>
              /\ pc'[p] = "nextRange"
              /\ loc'[p].must = Keys(SNISelector(arg[p].sni))]_vars

\* C34: a request without Host header is answered 400; it is not answered
\* from the cache, getNextBackend is not called for it, and no request is
\* sent to a backend.
C34_NoHostIs400 ==
    (ret.op = "Handle" /\ ret.sni = NoHost) =>
        /\ ret.status = 400
        /\ ~ret.cached
        /\ ret.next = "none"
        /\ ret.upstream = "none"
        /\ ~ret.forwarded

\* C35: the step that answers a request from the cache is the whole request:
\* getNextBackend is not called (the handler has returned), and the pools and
\* the round-robin cursors are after it what they were before.
C35_CacheHitSkipsNext ==
    [][(ret'.op = "Handle" /\ ret'.cached /\ opsLeft' # opsLeft) =>
          /\ ret'.next = "none"
          /\ \A p \in Procs : pc[p] = "idle" => pc'[p] = "idle"
          /\ Backends' = Backends
          /\ BackendIndices' = BackendIndices]_vars

\* A request was answered from the cache while its selector has a pool and a
\* cursor.
C35_Witness ==
    /\ ret.op = "Handle" /\ ret.cached
    /\ Keys(ret.sni) # {}
    /\ MapHas(BackendIndices, ret.sni)

\* C36: the cache changes only in the step that ends a request with the
\* response of a backend whose body was read to its end: a request that ends
\* in a 503, 502 or 500 of the forwarder, or in a panic, leaves the cache as
\* it was, and what a later request is served from the cache is a body a
\* backend sent, never an error text of the forwarder.
C36_CacheWrittenAfterBodyRead ==
    [][/\ Cache' # Cache =>
             /\ ret'.op = "Handle" /\ ret'.upstream = "ok"
             /\ ret'.body \in Bodies
             /\ Cache' = MapStore(Cache, CacheKey(ret'.sni, ret'.url), ret'.body)
       /\ (ret'.op = "Handle" /\ ret'.cached) => ret'.body \in Bodies]_vars

\* A request ended in a 500, 502 or 503 of the forwarder while the cache
\* holds the response of an earlier request, and nothing is cached under the
\* key of the failed one.
C36_Witness ==
    /\ cacheOn
    /\ ret.op = "Handle" /\ ret.status \in {500, 502, 503}
    /\ DOMAIN Cache # {}
    /\ ~MapHas(Cache, CacheKey(ret.sni, ret.url))

\* C37: a response served from the cache has the status code and the body of
\* the backend response that was stored last under its key.
C37_CachedStatusAndBody ==
    (ret.op = "Handle" /\ ret.cached) =>
        LET I == { i \in DOMAIN forwards :
                      forwards[i].host = ret.sni /\ forwards[i].url = ret.url }
        IN  /\ I # {}
            /\ LET last == CHOOSE i \in I : \A j \in I : j <= i
               IN  /\ ret.body = forwards[last].body
                   /\ ret.status = forwards[last].status

\* C38: with registrations that were acknowledged before the Next calls
\* start and no Deregister, every acknowledged backend is in the pool of its
\* selector, a Next on a selector with an acknowledged backend returns a
\* backend, and once |Pool| sequential Next calls have returned on the pool
\* as it stands, every acknowledged backend is among the first |Pool|
\* backends they returned.
C38_AcknowledgedIsServed ==
    /\ \A s \in Selectors : regHist[s].done \subseteq Keys(s)
    /\ (ret.op = "Next" /\ regHist[ret.sni].done # {}) => ret.kind = "Backend"
    /\ \A s \in Selectors :
          LET n == Cardinality(Keys(s))
          IN  Len(returned[s]) >= n =>
                  \A b \in regHist[s].done :
                      \E i \in 1..n : returned[s][i] = b

\* C39: the step in which a Next call returns NoBackend (the selector has no
\* entry, or its pool is empty) leaves the pools and the cursors as they
\* were: no pool entry and no cursor entry is created for the selector.
C39_NoBackendLeavesRegistry ==
    [][(/\ ret'.op = "Next" /\ ret'.kind = "NoBackend"
        /\ \/ opsLeft' # opsLeft
           \/ \E p \in Procs : pc[p] = "nextRange" /\ pc'[p] = "idle") =>
          /\ Backends' = Backends
          /\ BackendIndices' = BackendIndices
          /\ MapHas(Backends', ret'.sni) = MapHas(Backends, ret'.sni)
          /\ MapHas(BackendIndices', ret'.sni) = MapHas(BackendIndices, ret'.sni)]_vars

\* A Next call has returned NoBackend on a selector whose pool is empty
\* and that has no cursor.
C39_Witness ==
    /\ ret.op = "Next" /\ ret.kind = "NoBackend"
    /\ MapHas(Backends, ret.sni) /\ Keys(ret.sni) = {}
    /\ ~MapHas(BackendIndices, ret.sni)

====
